---- MODULE Spec2Model ----
(***************************************************************************)
(* A model of ParrotHandler (src/index.js): a handler that copies a value  *)
(* read from a source into a list of items once per animation frame.       *)
(*                                                                         *)
(* The handler's fields (items, source, timer, options) are variables.     *)
(* The two collaborators are modelled by what they hold: `frames' is the   *)
(* set of raf handles whose callback is still pending, `timeouts' the bag  *)
(* of pending setTimeout callbacks, each recorded by the delay argument it *)
(* was armed with.  The getter and the setter are the caller's functions:  *)
(* their results are inputs of a frame, and the calls made to them are     *)
(* logged in `reads' and `writes'.                                         *)
(***************************************************************************)
EXTENDS Integers, Sequences, FiniteSets, Bags, TLC

VARIABLES
  items,        \* this.items
  source,       \* this.source
  timer,        \* this.timer
  options,      \* this.options
  frames,       \* raf: handles of the callbacks waiting for the next frame
  nextHandle,   \* raf: the next handle raf() returns
  timeouts,     \* setTimeout: bag of the delays of the armed callbacks
  triggers,     \* the sources whose trigger, returned by from, the caller holds
  op,           \* the operation that ran last: name, argument, timer set before it
  ret,          \* what the operation that ran last returned
  thrown,       \* what the operation that ran last raised
  reads,        \* the getter calls of the last frame, in order: the argument
  writes,       \* the setter calls of the last frame, in order: <<item, value>>
  toLog,        \* the arguments of all to calls so far, in call order
  freed,        \* freeLoop has run on a set timer since the loop was started
  chainBroken,  \* a frame has raised since the loop was started
  rebind,       \* the source of the last trigger call, if made with the timer set
  atStart,      \* the number of items registered when the loop was started
  armedBy       \* bag of the armed timeouts, each by the handle its startLoop set

vars == <<items, source, timer, options, frames, nextHandle, timeouts, triggers,
          op, ret, thrown, reads, writes, toLog, freed, chainBroken, rebind,
          atStart, armedBy>>

(***************************************************************************)
(* JavaScript values.                                                      *)
(***************************************************************************)
Null == <<"null">>
Undefined == <<"undefined">>
Num(n) == <<"number", n>>
Obj(n) == <<"object", n>>
Handle(n) == <<"handle", n>>
Trigger(s) == <<"function", s>>
This == <<"this">>

NoError == "none"
TypeError == "TypeError"
CallbackError == "Error"

(***************************************************************************)
(* Bounds of the model.                                                    *)
(***************************************************************************)
MaxItems == 2
MaxHandle == 3
Items == {Obj("A"), Obj("B")}
Sources == {Obj("s1"), Obj("s2")}
Values == {"v1", "v2"}
Raise == "raise"
UserOptions ==
  { [getter |-> "getter", setter |-> "setter"],
    [getter |-> "getter", setter |-> "setter", duration |-> Num(1000)] }

(***************************************************************************)
(* The constructor.                                                        *)
(***************************************************************************)
DefaultDuration == 3000
defaultOptions == [duration |-> Num(DefaultDuration)]

\* objectAssign({}, a, b): the keys of b win over those of a
objectAssign(a, b) ==
  [k \in DOMAIN a \cup DOMAIN b |-> IF k \in DOMAIN b THEN b[k] ELSE a[k]]

\* the methods of class ParrotHandler
Methods == {"constructor", "to", "from", "loop", "startLoop", "freeLoop"}

\* the fields the class ever assigns
Fields == {"items", "source", "timer", "options",
           "startLoopEvent", "freeLoopEvent", "loopEvent"}

\* this.loopDuration, as startLoop reads it: a field nothing assigns
loopDuration == IF "loopDuration" \in Fields THEN options.duration ELSE Undefined

Init ==
  /\ items = <<>>
  /\ source = Null
  /\ timer = Null
  /\ \E o \in UserOptions : options = objectAssign(defaultOptions, o)
  /\ frames = {}
  /\ nextHandle = 1
  /\ timeouts = EmptyBag
  /\ triggers = {}
  /\ op = [name |-> "constructor", arg |-> Undefined, running |-> FALSE]
  /\ ret = This
  /\ thrown = NoError
  /\ reads = <<>>
  /\ writes = <<>>
  /\ toLog = <<>>
  /\ freed = FALSE
  /\ chainBroken = FALSE
  /\ rebind = Null
  /\ atStart = 0
  /\ armedBy = EmptyBag

(***************************************************************************)
(* raf and setTimeout.                                                     *)
(***************************************************************************)
\* raf(callback): the pending callbacks after scheduling one under handle n
raf(pending, n) == pending \cup {Handle(n)}

\* raf.cancel(handle): a handle that is not pending is ignored
rafCancel(pending, h) == pending \ {h}

\* setTimeout(callback, delay)
setTimeout(armed, delay) == armed (+) SetToBag({delay})

(***************************************************************************)
(* The methods.                                                            *)
(***************************************************************************)
Called(name, arg) == op' = [name |-> name, arg |-> arg, running |-> timer # Null]

\* to(item) dropping an item that is already registered
toUnique(item) ==
  /\ items' = IF \E i \in 1..Len(items) : items[i] = item
              THEN items
              ELSE Append(items, item)
  /\ ret' = This
  /\ thrown' = NoError

\* to(item) with unshift in place of push
toPrepend(item) ==
  /\ items' = <<item>> \o items
  /\ ret' = This
  /\ thrown' = NoError

\* to(item)
to(item) ==
  /\ items' = Append(items, item)
  /\ ret' = This
  /\ thrown' = NoError

\* startLoop() without the test of this.timer
startLoopAlways ==
  /\ nextHandle <= MaxHandle
  /\ timer' = Handle(nextHandle)
  /\ frames' = raf(frames, nextHandle)
  /\ nextHandle' = nextHandle + 1
  /\ timeouts' = setTimeout(timeouts, loopDuration)
  /\ freed' = FALSE
  /\ chainBroken' = FALSE
  /\ atStart' = Len(items)
  /\ armedBy' = armedBy (+) SetToBag({Handle(nextHandle)})
  /\ ret' = Undefined
  /\ thrown' = NoError

\* startLoop()
startLoop ==
  /\ IF timer = Null
     THEN /\ nextHandle <= MaxHandle
          /\ timer' = Handle(nextHandle)
          /\ frames' = raf(frames, nextHandle)
          /\ nextHandle' = nextHandle + 1
          /\ timeouts' = setTimeout(timeouts, loopDuration)
          /\ freed' = FALSE
          /\ chainBroken' = FALSE
          /\ atStart' = Len(items)
          /\ armedBy' = armedBy (+) SetToBag({Handle(nextHandle)})
     ELSE UNCHANGED <<timer, frames, nextHandle, timeouts, freed, chainBroken,
                      atStart, armedBy>>
  /\ ret' = Undefined
  /\ thrown' = NoError

\* freeLoop() without the test of this.timer, cancelling through a method of
\* the handle: the call on null raises
freeLoopUnguarded ==
  /\ IF timer # Null
     THEN /\ frames' = rafCancel(frames, timer)
          /\ freed' = TRUE
          /\ ret' = Undefined
          /\ thrown' = NoError
     ELSE /\ thrown' = TypeError
          /\ UNCHANGED <<frames, freed, ret>>
  /\ UNCHANGED timer

\* freeLoop() that also resets this.timer to null
freeLoopClearing ==
  /\ IF timer # Null
     THEN /\ frames' = rafCancel(frames, timer)
          /\ timer' = Null
          /\ freed' = TRUE
     ELSE UNCHANGED <<frames, timer, freed>>
  /\ ret' = Undefined
  /\ thrown' = NoError

\* freeLoop()
freeLoop ==
  /\ IF timer # Null
     THEN /\ frames' = rafCancel(frames, timer)
          /\ freed' = TRUE
     ELSE UNCHANGED <<frames, freed>>
  /\ UNCHANGED timer
  /\ ret' = Undefined
  /\ thrown' = NoError

\* the setter calls of a loop() that walks the items from the last to the first
RECURSIVE setterCallsBackward(_, _, _, _, _)
setterCallsBackward(its, idx, maxIndex, copiedValue, failAt) ==
  IF idx <= maxIndex
  THEN IF failAt = maxIndex + 1
       THEN << <<its[maxIndex + 1], copiedValue>> >>
       ELSE << <<its[maxIndex + 1], copiedValue>> >>
              \o setterCallsBackward(its, idx, maxIndex - 1, copiedValue, failAt)
  ELSE <<>>

\* the setter calls of loop(): items idx..maxIndex (0-based) each receive
\* copiedValue; the call on item failAt (1-based, 0 for none) raises and
\* ends the loop
RECURSIVE setterCalls(_, _, _, _, _)
setterCalls(its, idx, maxIndex, copiedValue, failAt) ==
  IF idx <= maxIndex
  THEN IF failAt = idx + 1
       THEN << <<its[idx + 1], copiedValue>> >>
       ELSE << <<its[idx + 1], copiedValue>> >>
              \o setterCalls(its, idx + 1, maxIndex, copiedValue, failAt)
  ELSE <<>>

\* loop() walking the items that were registered when the loop was started
loopSnapshot(pending, got, failAt) ==
  /\ reads' = <<source>>
  /\ IF got = Raise
     THEN /\ writes' = <<>>
          /\ thrown' = CallbackError
          /\ frames' = pending
          /\ chainBroken' = TRUE
          /\ UNCHANGED nextHandle
     ELSE /\ writes' = setterCalls(items, 0, atStart - 1, got, failAt)
          /\ IF failAt # 0 /\ failAt <= atStart
             THEN /\ thrown' = CallbackError
                  /\ frames' = pending
                  /\ chainBroken' = TRUE
                  /\ UNCHANGED nextHandle
             ELSE /\ thrown' = NoError
                  /\ frames' = raf(pending, nextHandle)
                  /\ nextHandle' = nextHandle + 1
                  /\ UNCHANGED chainBroken
  /\ UNCHANGED timer
  /\ ret' = Undefined

\* loop(), run with `pending' callbacks waiting; got is what the getter
\* returns (or Raise), failAt the item whose setter call raises (0: none)
loop(pending, got, failAt) ==
  /\ reads' = <<source>>
  /\ IF got = Raise
     THEN /\ writes' = <<>>
          /\ thrown' = CallbackError
          /\ frames' = pending
          /\ chainBroken' = TRUE
          /\ UNCHANGED nextHandle
     ELSE /\ writes' = setterCalls(items, 0, Len(items) - 1, got, failAt)
          /\ IF failAt # 0
             THEN /\ thrown' = CallbackError
                  /\ frames' = pending
                  /\ chainBroken' = TRUE
                  /\ UNCHANGED nextHandle
             ELSE /\ thrown' = NoError
                  /\ frames' = raf(pending, nextHandle)
                  /\ nextHandle' = nextHandle + 1
                  /\ UNCHANGED chainBroken
  /\ UNCHANGED timer
  /\ ret' = Undefined

(***************************************************************************)
(* The operations of the caller and the events of the environment.         *)
(***************************************************************************)
To(item) ==
  /\ Len(items) < MaxItems
  /\ to(item)
  /\ toLog' = Append(toLog, item)
  /\ Called("to", item)
  /\ UNCHANGED <<source, timer, options, frames, nextHandle, timeouts, triggers,
                 reads, writes, freed, chainBroken, rebind, atStart, armedBy>>

\* from(source) binding the source at once, not in the trigger
FromEager(s) ==
  /\ triggers' = triggers \cup {s}
  /\ source' = s
  /\ ret' = Trigger(s)
  /\ Called("from", s)
  /\ thrown' = NoError
  /\ UNCHANGED <<items, timer, options, frames, nextHandle, timeouts,
                 reads, writes, toLog, freed, chainBroken, rebind, atStart,
                 armedBy>>

\* from(source): returns the trigger and does nothing else
From(s) ==
  /\ triggers' = triggers \cup {s}
  /\ ret' = Trigger(s)
  /\ Called("from", s)
  /\ thrown' = NoError
  /\ UNCHANGED <<items, source, timer, options, frames, nextHandle, timeouts,
                 reads, writes, toLog, freed, chainBroken, rebind, atStart,
                 armedBy>>

\* the trigger returned by from(s): this.setSource(s), then startLoopEvent().
\* The call of a method the class does not have raises a TypeError before
\* anything else happens.
InvokeTrigger(s) ==
  /\ s \in triggers
  /\ Called("trigger", s)
  /\ rebind' = IF timer # Null THEN s ELSE Null
  /\ IF "setSource" \in Methods
     THEN /\ source' = s
          /\ startLoop
     ELSE /\ thrown' = TypeError
          /\ UNCHANGED <<source, timer, frames, nextHandle, timeouts, freed,
                         chainBroken, atStart, armedBy, ret>>
  /\ UNCHANGED <<items, options, triggers, reads, writes, toLog>>

StartLoop ==
  /\ startLoop
  /\ Called("startLoop", Undefined)
  /\ UNCHANGED <<items, source, options, triggers, reads, writes, toLog, rebind>>

FreeLoop ==
  /\ freeLoop
  /\ Called("freeLoop", Undefined)
  /\ UNCHANGED <<items, source, options, nextHandle, timeouts, triggers,
                 reads, writes, toLog, chainBroken, rebind, atStart, armedBy>>

\* an armed timeout fires: freeLoopEvent()
TimerFire(d) ==
  /\ d \in BagToSet(timeouts)
  /\ timeouts' = timeouts (-) SetToBag({d})
  /\ \E o \in BagToSet(armedBy) : armedBy' = armedBy (-) SetToBag({o})
  /\ freeLoop
  /\ Called("timerFire", d)
  /\ UNCHANGED <<items, source, options, nextHandle, triggers,
                 reads, writes, toLog, chainBroken, rebind, atStart>>

\* the next frame: raf runs the pending callback h, loopEvent()
Frame(h, got, failAt) ==
  /\ h \in frames
  /\ nextHandle <= MaxHandle
  /\ loop(rafCancel(frames, h), got, failAt)
  /\ Called("frame", h)
  /\ UNCHANGED <<items, source, options, timeouts, triggers, toLog, freed, rebind,
                 atStart, armedBy>>

Next ==
  \/ \E i \in Items : To(i)
  \/ \E s \in Sources : From(s)
  \/ \E s \in Sources : InvokeTrigger(s)
  \/ StartLoop
  \/ FreeLoop
  \/ \E d \in BagToSet(timeouts) : TimerFire(d)
  \/ \E h \in frames, got \in Values \cup {Raise}, failAt \in 0..Len(items) :
       Frame(h, got, failAt)

Spec == Init /\ [][Next]_vars

(***************************************************************************)
(* The handler's states, as the specification names them.                  *)
(***************************************************************************)
Idle == timer = Null
Running == timer # Null

\* the setter calls of a frame that copies value v into every item, in order
FullCopy(v) == [i \in 1..Len(items) |-> <<items[i], v>>]

(***************************************************************************)
(* Properties.                                                             *)
(***************************************************************************)

\* C1: invoking the trigger returned by from(s) completes, leaves the
\* handler's source bound to s and leaves the handler Running.
C1_TriggerBindsAndStarts ==
  op.name = "trigger" => (thrown = NoError /\ source = op.arg /\ Running)

\* C2: once a loop's duration timer has fired the handler is Idle and no
\* frame callback remains scheduled, however many frames ran before.
C2_TimerStopsLoop ==
  op.name = "timerFire" => (Idle /\ frames = {})

\* C3: startLoop, called directly or through a trigger while the handler is
\* Running, schedules no frame and arms no timer; and as long as no freeLoop
\* has run and no frame has raised since the loop was started, exactly one
\* frame callback is pending.
C3_StartIdempotent ==
  [][ /\ (op'.name \in {"startLoop", "trigger"} /\ Running)
         => UNCHANGED <<timer, frames, nextHandle, timeouts>>
      /\ (Running' /\ ~freed' /\ ~chainBroken') => Cardinality(frames') = 1
    ]_vars

C3_Witness ==
  /\ op.name = "startLoop"
  /\ op.running
  /\ ~freed
  /\ ~chainBroken
  /\ Cardinality(frames) = 1
  /\ BagCardinality(timeouts) = 1

\* C4: a frame calls the getter exactly once, on the bound source, and then
\* the setter once per registered item, in registration order, each time
\* with the value the getter returned; a call that raises ends the frame.
C4_CopyStep ==
  op.name = "frame" =>
    /\ reads = <<source>>
    /\ \E v \in Values : writes = SubSeq(FullCopy(v), 1, Len(writes))
    /\ thrown = NoError => Len(writes) = Len(items)

C4_Witness ==
  /\ op.name = "frame"
  /\ thrown = NoError
  /\ items = <<Obj("A"), Obj("B")>>
  /\ writes = << <<Obj("A"), "v2">>, <<Obj("B"), "v2">> >>

\* C5: items is the sequence of the arguments of the to calls, in call
\* order and with duplicates kept, and every to call returns the handler.
C5_ToAppends ==
  /\ items = toLog
  /\ op.name = "to" => (ret = This /\ thrown = NoError)

C5_Witness ==
  /\ op.name = "to"
  /\ items = <<Obj("B"), Obj("B")>>

\* C6: after a trigger for a new source has been invoked while the handler
\* is Running, every frame reads its value from that source.
C6_RebindRead ==
  (op.name = "frame" /\ rebind # Null) => reads = <<rebind>>

\* C7: every armed auto-stop timer has the configured duration as its delay:
\* the duration given to the constructor, or else the default.
C7_TimerDelay ==
  \A d \in BagToSet(timeouts) : d = options.duration

\* C8: freeLoop called while the handler is Idle raises nothing and leaves
\* items, source, timer, the scheduled frames and the armed timers unchanged.
C8_FreeIdleNoop ==
  [][ (op'.name = "freeLoop" /\ Idle)
        => (thrown' = NoError /\ UNCHANGED <<items, source, timer, frames, timeouts>>)
    ]_vars

C8_Witness ==
  /\ op.name = "freeLoop"
  /\ ~op.running
  /\ Idle
  /\ items # <<>>

\* C9: once a loop has been stopped (freeLoop has run and no frame is
\* pending), a startLoop call starts a new loop: the handler is Running,
\* with a new frame scheduled and a new timer armed.
C9_Restart ==
  [][ (op'.name = "startLoop" /\ freed /\ frames = {})
        => (Running' /\ frames' # {} /\ timeouts' # timeouts)
    ]_vars

\* C10: every frame that completes without an exception leaves exactly one
\* frame callback pending, and timer holds the handle of that callback.
C10_HandleCurrent ==
  [][ (op'.name = "frame" /\ thrown' = NoError) => frames' = {timer'} ]_vars

\* C11: freeLoop run while the handler is Running, by a direct call or by
\* the timer, cancels the current handle and leaves the handler Idle.
C11_FreeStops ==
  [][ (op'.name \in {"freeLoop", "timerFire"} /\ Running)
        => (Idle' /\ timer \notin frames')
    ]_vars

\* C12: a frame in which the getter or a setter raises schedules no further
\* frame, writes no item after the failing call and leaves the handler
\* Running, so that startLoop stays a no-op; when the duration timer then
\* fires, the handler is Idle.
C12_FailureThenTimer ==
  [][ /\ (op'.name = "frame" /\ thrown' # NoError)
           => /\ frames' = frames \ {op'.arg}
              /\ \E v \in Values : writes' = SubSeq(FullCopy(v), 1, Len(writes'))
              /\ Running'
              /\ timer' = timer
      /\ (chainBroken /\ op'.name = "startLoop")
           => UNCHANGED <<timer, frames, timeouts>>
      /\ (chainBroken /\ op'.name = "timerFire") => Idle'
    ]_vars

\* C13: from(source) returns the trigger for that source and changes
\* nothing: source, items and timer keep their values and no frame or timer
\* is scheduled.
C13_FromPure ==
  [][ op'.name = "from"
        => /\ ret' = Trigger(op'.arg)
           /\ thrown' = NoError
           /\ UNCHANGED <<source, items, timer, frames, nextHandle, timeouts>>
    ]_vars

C13_Witness ==
  /\ op.name = "from"
  /\ op.arg = Obj("s2")
  /\ ret = Trigger(Obj("s2"))
  /\ source = Null
  /\ items # <<>>
  /\ frames # {}

\* C14: whatever operation or event runs, items afterwards has the items
\* before as a prefix, and only to changes items.
C14_ItemsGrow ==
  [][ /\ Len(items') >= Len(items)
      /\ SubSeq(items', 1, Len(items)) = items
      /\ items' # items => op'.name = "to"
    ]_vars

C14_Witness ==
  /\ op.name = "to"
  /\ op.running
  /\ freed
  /\ reads # <<>>
  /\ items = <<Obj("A"), Obj("B")>>

\* C15: an item registered while the loop is running is written, with the
\* value read in that frame, by every later frame that completes, and its
\* registration neither schedules a frame nor arms a timer.
C15_LateItems ==
  [][ /\ op'.name = "to" => UNCHANGED <<timer, frames, nextHandle, timeouts>>
      /\ (op'.name = "frame" /\ thrown' = NoError)
           => \E v \in Values :
                \A i \in (atStart' + 1)..Len(items') :
                  /\ i <= Len(writes')
                  /\ writes'[i] = <<items'[i], v>>
    ]_vars

C15_Witness ==
  /\ op.name = "frame"
  /\ thrown = NoError
  /\ Running
  /\ atStart = 1
  /\ items = <<Obj("A"), Obj("B")>>
  /\ writes = << <<Obj("A"), "v1">>, <<Obj("B"), "v1">> >>

\* the timeout that fires in this step was armed by the startLoop that set
\* the handle h
FiredFor(h) == CopiesIn(h, armedBy') < CopiesIn(h, armedBy)

====
